---- MODULE Spec2Model ----
(***************************************************************************)
(* Model of notify.py: the availability checker, the Notified-Set store,   *)
(* the Discord sink and the __main__ orchestration.                        *)
(*                                                                         *)
(* A date string "YYYY-MM-DD" is the tuple <<Y, M, D>> of its fields; a    *)
(* datetime object is its proleptic Gregorian ordinal, as in CPython.      *)
(***************************************************************************)
EXTENDS Integers, Sequences, FiniteSets, TLC

\* ------------------------------------------------------------------ bounds
MaxDays == 2        \* number of calendar dates the configuration ranges over
MaxAvail == 1       \* largest `available` count the data source reports
MaxRuns == 3        \* number of invocations of the script in one behaviour

\* first calendar date of the modelled window (inside the configured range
\* 2025-11-15 .. 2026-02-15; the window crosses the year boundary)
FirstDate == <<2025, 12, 31>>

\* ---------------------------------------------------------------- calendar
IsLeap(y) == (y % 4 = 0) /\ ((y % 100 # 0) \/ (y % 400 = 0))

\* days of the year before the first day of month m (m = 13: the whole year)
DaysBeforeMonth(y, m) ==
  <<0, 31, 59, 90, 120, 151, 181, 212, 243, 273, 304, 334, 365>>[m]
    + (IF m > 2 /\ IsLeap(y) THEN 1 ELSE 0)

DaysBeforeYear(y) ==
  ((y - 1) * 365) + ((y - 1) \div 4) - ((y - 1) \div 100) + ((y - 1) \div 400)

\* datetime.strptime(s, "%Y-%m-%d"): date string -> datetime (ordinal)
strptime(s) == DaysBeforeYear(s[1]) + DaysBeforeMonth(s[1], s[2]) + s[3]

\* datetime.strftime("%Y-%m-%d"): datetime (ordinal) -> date string
strftime(ord) ==
  LET n0   == ord - 1
      n400 == n0 \div 146097
      r400 == n0 % 146097
      n100 == r400 \div 36524
      r100 == r400 % 36524
      n4   == r100 \div 1461
      r4   == r100 % 1461
      n1   == r4 \div 365
      n    == r4 % 365
      year == (n400 * 400) + 1 + (n100 * 100) + (n4 * 4) + n1
  IN IF n1 = 4 \/ n100 = 4
       THEN <<year - 1, 12, 31>>
       ELSE LET m0    == (n + 50) \div 32
                prec0 == DaysBeforeMonth(year, m0)
                month == IF prec0 > n THEN m0 - 1 ELSE m0
                prec  == DaysBeforeMonth(year, month)
            IN <<year, month, (n - prec) + 1>>

\* the date strings of the modelled window: MaxDays consecutive days
Dates == { strftime(strptime(FirstDate) + i) : i \in 0 .. (MaxDays - 1) }

\* chronological order on date strings
DateLE(a, b) == strptime(a) <= strptime(b)

\* ------------------------------------------------------------ small helpers
Range(s) == { s[i] : i \in DOMAIN s }

Perms(S) ==
  { p \in [1 .. Cardinality(S) -> S] : \A i, j \in DOMAIN p : (p[i] = p[j]) => (i = j) }

\* the invocations of the script that can be under way; the second one is
\* started only where invocations overlap
Procs == {1, 2}

\* ------------------------------------------------- the Notified-Set store
\* contents of notified_dates.json: absent, not parseable, or an object whose
\* "notified_dates" member is the list `dates`
NoFile == [kind |-> "absent", dates |-> <<>>]
CorruptFile == [kind |-> "corrupt", dates |-> <<>>]
\* the file right after open(filename, 'w'): zero bytes, which json.load rejects
EmptyFile == [kind |-> "empty", dates |-> <<>>]
JsonFile(seq) == [kind |-> "ok", dates |-> seq]

\* variant: a load that ignores the file
load_notified_dates_Forgets(file) == {}

\* variant: a file that cannot be read counts every date as notified
load_notified_dates_Unreadable(file) ==
  IF file.kind = "ok" THEN Range(file.dates)
  ELSE IF file.kind = "corrupt" THEN Dates ELSE {}

\* load_notified_dates(): set(data.get('notified_dates', [])), or set() when
\* the file does not exist or reading it raises
load_notified_dates(file) ==
  IF file.kind = "ok" THEN Range(file.dates) ELSE {}

\* outcomes of the write in save_notified_dates: written, open() raised
\* (file untouched), json.dump raised after the file was truncated
SaveOutcomes == {"ok", "open_failed", "write_failed"}

\* variant: a save that adds to the list the file holds
save_notified_dates_Appends(order, outcome, file) ==
  IF outcome = "ok" THEN JsonFile(file.dates \o order)
  ELSE IF outcome = "write_failed" THEN CorruptFile
  ELSE file

\* save_notified_dates(notified_dates): the file after the call; `order` is
\* the iteration order list(notified_dates) happened to produce
save_notified_dates(order, outcome, file) ==
  IF outcome = "ok" THEN JsonFile(order)
  ELSE IF outcome = "write_failed" THEN CorruptFile
  ELSE file

\* line 55 on its own: the bytes of the dump go to offset 0 of what the file
\* holds at that time.  After the truncation of line 54 that is nothing, unless
\* another process wrote in between: a longer document then sticks out behind
\* this one and the whole is no JSON (documents with equally many dates are
\* equally long); of a broken one, `longer` says whether it sticks out.
write_at_start(order, outcome, longer, file) ==
  IF outcome = "write_failed" THEN CorruptFile
  ELSE IF file.kind = "ok" /\ Len(file.dates) > Len(order) THEN CorruptFile
  ELSE IF file.kind = "corrupt" /\ longer THEN CorruptFile
  ELSE JsonFile(order)

\* -------------------------------------------------------- the data source
\* a JSON member: absent from the object, null, or an integer
Missing == [t |-> "missing", v |-> 0]
Null == [t |-> "null", v |-> 0]
JInt(n) == [t |-> "int", v |-> n]

Resp(kind, top, success, data, available, capacity) ==
  [kind |-> kind, top |-> top, success |-> success, data |-> data,
   available |-> available, capacity |-> capacity]

\* what requests.get(...) / raise_for_status() / response.json() can produce
\* for one date: a transport error, a non-2xx status, a body that is not
\* JSON, a JSON value that is not an object, an object whose "success" is
\* absent or false, one whose "data" is absent or empty, one whose "data" is a
\* non-empty non-object, and a "data" object with or without its members.
\* (A body that is not JSON makes response.json() raise requests'
\* JSONDecodeError, which is a RequestException.)
Responses ==
  { Resp(k, "dict", FALSE, "none", Missing, Missing) :
      k \in {"conn_error", "http_error", "bad_json"} }
  \cup { Resp("ok", "list", FALSE, "none", Missing, Missing),
         Resp("ok", "dict", FALSE, "none", Missing, Missing),
         Resp("ok", "dict", TRUE, "none", Missing, Missing),
         Resp("ok", "dict", TRUE, "list", Missing, Missing) }
  \cup { Resp("ok", "dict", TRUE, "dict", a, c) :
           a \in {Missing, Null} \cup { JInt(n) : n \in 0 .. MaxAvail },
           c \in {Missing, JInt(MaxAvail)} }

\* dict.get(key, default)
dict_get(member, default) == IF member.t = "missing" THEN default ELSE member

\* the path one loop iteration of check_availability takes on a response
Branch(resp) ==
  IF resp.kind # "ok" THEN "request_exception"            \* caught, line 145
  ELSE IF resp.top # "dict" THEN "attribute_error"        \* data.get, line 105
  ELSE IF ~(resp.success /\ resp.data # "none") THEN "no_data"
  ELSE IF resp.data # "dict" THEN "attribute_error"       \* booking_data.get
  ELSE IF dict_get(resp.available, JInt(0)).t # "int" THEN "type_error"
  ELSE IF dict_get(resp.available, JInt(0)).v > 0 THEN "available"
  ELSE "full"

\* the response has the expected shape of section 6: success, and a data
\* object with integer `available` and `capacity`
Usable(resp) ==
  /\ resp.kind = "ok" /\ resp.top = "dict" /\ resp.success /\ resp.data = "dict"
  /\ resp.available.t = "int" /\ resp.capacity.t = "int"

\* what the response says about the date, whatever the check makes of it
Answer(resp) ==
  IF resp.kind # "ok" THEN "failed"
  ELSE IF ~Usable(resp) THEN "deviant"
  ELSE IF resp.available.v > 0 THEN "available"
  ELSE "full"

\* --------------------------------------------------------- the Discord sink
DeliveryOutcomes == {"2xx", "404", "5xx", "conn_error"}

\* send_discord_webhook: every RequestException is caught and printed; the
\* caller learns nothing.  The entry this call leaves in the webhook's log.
send_discord_webhook(date_str, available, capacity, outcome) ==
  [date |-> date_str, available |-> available, capacity |-> capacity,
   delivered |-> (outcome = "2xx")]

\* ---------------------------------------------------------- configuration
WebhookPrefix == "https://discord.com/api/webhooks/"
Placeholder == <<"YOUR_WEBHOOK_URL_HERE">>
\* a URL is the sequence of its leading part and the rest
WebhookURLs == { Placeholder, <<"https://example.com/", "hook">>, <<WebhookPrefix, "id/token">> }
startswith(u, p) == Len(u) > 0 /\ u[1] = p
\* variant: only the placeholder is rejected
ConfigInvalid_PlaceholderOnly(u) == u = Placeholder

\* line 190
ConfigInvalid(u) == (u = Placeholder) \/ ~startswith(u, WebhookPrefix)

\* ------------------------------------------------------------------- state
VARIABLES
  start_date, end_date,        \* the configured range (lines 205-206)
  SKIP_DATES,                  \* the configured skip set (line 170)
  notified_file,               \* notified_dates.json
  summary_file,                \* available_dates.json
  runs,                        \* invocations of the script started so far
  pc,                          \* per process: where the invocation stands
  DISCORD_WEBHOOK_URL,         \* per process: the channel target (line 164)
  notified_dates,              \* per process: the in-memory Notified-Set
  loaded,                      \* per process: what load_notified_dates returned
  current_date,                \* per process: the loop variable (a datetime)
  all_available_dates_this_run,\* per process: the list the check builds
  request_log,                 \* per process: the GETs issued, in order
  webhook_log,                 \* per process: the POSTs issued, in order
  save_outcome,                \* per process: how save_notified_dates ended
  summary_outcome,             \* per process: how the write of the Run Summary ended
  last_saver,                  \* the process that wrote the Notified-Set file last
  exit_code,                   \* per process: -1 while running
  ever_available,              \* dates some query has reported available > 0
  last_usable,                 \* per date: what the latest answer the check used said
  reopen,                      \* per date: retracted / notified again since
  prev_available,              \* dates the previous, saved invocation listed
  well_formed,                 \* every answer so far failed or had the expected shape
  started_empty,               \* the first invocation had no Notified-Set to load
  clean                        \* every invocation that ended so far returned
                               \* from the check and saved the Notified-Set

vars == << start_date, end_date, SKIP_DATES, notified_file, summary_file, runs,
           pc, DISCORD_WEBHOOK_URL, notified_dates, loaded, current_date,
           all_available_dates_this_run, request_log, webhook_log,
           save_outcome, summary_outcome, last_saver, exit_code,
           ever_available, last_usable, reopen, prev_available, well_formed,
           started_empty, clean >>

NoSummary ==
  [kind |-> "absent", start |-> <<>>, end |-> <<>>, skip_dates |-> {},
   available_dates_now |-> <<>>, total_notified_dates |-> 0]

\* a canonical listing of a set of dates (for the files the model starts from)
RECURSIVE Ascending(_)
Ascending(S) ==
  IF S = {} THEN <<>>
  ELSE LET m == CHOOSE x \in S : \A y \in S : DateLE(x, y)
       IN <<m>> \o Ascending(S \ {m})

InitialFiles == {NoFile, CorruptFile} \cup { JsonFile(Ascending(S)) : S \in SUBSET Dates }

InitProc(first) ==
  /\ pc = [r \in Procs |-> IF r \in first THEN "idle" ELSE "off"]
  /\ DISCORD_WEBHOOK_URL = [r \in Procs |-> <<>>]
  /\ notified_dates = [r \in Procs |-> {}]
  /\ loaded = [r \in Procs |-> {}]
  /\ current_date = [r \in Procs |-> 0]
  /\ all_available_dates_this_run = [r \in Procs |-> <<>>]
  /\ request_log = [r \in Procs |-> <<>>]
  /\ webhook_log = [r \in Procs |-> <<>>]
  /\ save_outcome = [r \in Procs |-> "none"]
  /\ summary_outcome = [r \in Procs |-> "none"]
  /\ exit_code = [r \in Procs |-> -1]

InitEnv ==
  /\ start_date \in Dates
  /\ end_date \in Dates
  /\ SKIP_DATES \in SUBSET Dates
  /\ notified_file \in InitialFiles
  /\ summary_file = NoSummary
  /\ last_saver = 0
  /\ ever_available = {}
  /\ last_usable = [d \in Dates |-> "none"]
  /\ reopen = [d \in Dates |-> "none"]
  /\ prev_available = {}
  /\ well_formed = TRUE
  /\ started_empty = (load_notified_dates(notified_file) = {})
  /\ clean = TRUE

\* one process, invoked again and again: non-overlapping runs
Init == InitEnv /\ InitProc({1}) /\ runs = 1

\* -------------------------------------------------------------- __main__
\* lines 164-194: read the channel target and validate it
Main_Config(r) ==
  /\ pc[r] = "idle"
  /\ \E u \in WebhookURLs :
       /\ DISCORD_WEBHOOK_URL' = [DISCORD_WEBHOOK_URL EXCEPT ![r] = u]
       /\ IF ConfigInvalid(u)
            THEN /\ pc' = [pc EXCEPT ![r] = "exited"]
                 /\ exit_code' = [exit_code EXCEPT ![r] = 1]
            ELSE /\ pc' = [pc EXCEPT ![r] = "load"]
                 /\ UNCHANGED exit_code
  /\ UNCHANGED << start_date, end_date, SKIP_DATES, notified_file, last_saver, summary_file,
                  runs, notified_dates, loaded, current_date,
                  all_available_dates_this_run, request_log, webhook_log,
                  save_outcome, summary_outcome, ever_available, last_usable, reopen,
                  prev_available, well_formed, started_empty, clean >>

\* line 197, and the entry of check_availability (lines 76-89)
Main_Load(r) ==
  /\ pc[r] = "load"
  /\ notified_dates' = [notified_dates EXCEPT ![r] = load_notified_dates(notified_file)]
  /\ loaded' = [loaded EXCEPT ![r] = load_notified_dates(notified_file)]
  /\ current_date' = [current_date EXCEPT ![r] = strptime(start_date)]
  /\ all_available_dates_this_run' = [all_available_dates_this_run EXCEPT ![r] = <<>>]
  /\ pc' = [pc EXCEPT ![r] = "check"]
  /\ UNCHANGED << start_date, end_date, SKIP_DATES, notified_file, last_saver, summary_file,
                  runs, DISCORD_WEBHOOK_URL, request_log, webhook_log,
                  save_outcome, summary_outcome, exit_code, ever_available, last_usable, reopen,
                  prev_available, well_formed, started_empty, clean >>


\* ---------------------------------------------------- check_availability
\* variant: a loop that stops before the end date
InRange_Exclusive(cur, end) == cur < strptime(end)

\* line 91: while current_date <= end_date_obj
InRange(cur, end) == cur <= strptime(end)

\* variant: a check that ignores the skip set
Skipped_Never(date_str, skip_dates) == FALSE

\* line 95: if date_str in skip_dates
Skipped(date_str, skip_dates) == date_str \in skip_dates

\* variant: every available date counts as new
IsNew_Always(date_str, notified) == TRUE

\* line 117: if date_str not in notified_dates
IsNew(date_str, notified) == date_str \notin notified

\* variant: a full date is not retracted
NotifiedAfter_NoRetract(branch, date_str, notified, delivery) ==
  IF branch = "available" THEN notified \cup {date_str} ELSE notified

\* variant: a new date is marked only when its message was delivered
NotifiedAfter_OnlyIfDelivered(branch, date_str, notified, delivery) ==
  IF branch = "available" /\ (date_str \in notified \/ delivery = "2xx")
    THEN notified \cup {date_str}
  ELSE IF branch = "full" THEN notified \ {date_str}
  ELSE notified

\* variant: a date without data is marked as notified
NotifiedAfter_AddsUnknown(branch, date_str, notified, delivery) ==
  IF branch \in {"available", "no_data"} THEN notified \cup {date_str}
  ELSE IF branch = "full" THEN notified \ {date_str}
  ELSE notified

\* lines 110-140: the Notified-Set after the iteration for date_str; the
\* outcome of the delivery at line 129 is not looked at
NotifiedAfter(branch, date_str, notified, delivery) ==
  IF branch = "available" THEN notified \cup {date_str}       \* line 131
  ELSE IF branch = "full" THEN notified \ {date_str}          \* lines 138-139
  ELSE notified

\* lines 110-115: the returned list after the iteration for date_str
ListAfter(branch, date_str, available, capacity, list) ==
  IF branch = "available"
    THEN Append(list, [date |-> date_str, available |-> available, capacity |-> capacity])
    ELSE list

\* lines 117-129: the webhook's log after the iteration for date_str
WebhookAfter(branch, date_str, available, capacity, notified, delivery, log) ==
  IF branch = "available" /\ IsNew(date_str, notified)
    THEN Append(log, send_discord_webhook(date_str, available, capacity, delivery))
    ELSE log

\* variant: a delivery that fails raises to the caller
send_raises_OnFailure(outcome) == outcome # "2xx"

\* lines 20-28: requests.post and raise_for_status fail with a
\* RequestException, which send_discord_webhook catches and prints
send_raises(outcome) == FALSE

\* variant: the loop catches every exception of an iteration
Escapes_None(branch) == FALSE

\* variant: the RequestException of a query is not caught
Escapes_All(branch) == branch \in {"attribute_error", "type_error", "request_exception"}

\* the exceptions that are no RequestException leave the loop and the function
Escapes(branch) == branch \in {"attribute_error", "type_error"}

\* lines 95-98: a date of the skip set is passed over
Check_Skip(r) ==
  /\ pc[r] = "check"
  /\ InRange(current_date[r], end_date)
  /\ Skipped(strftime(current_date[r]), SKIP_DATES)
  /\ current_date' = [current_date EXCEPT ![r] = @ + 1]
  /\ UNCHANGED << start_date, end_date, SKIP_DATES, notified_file, last_saver, summary_file,
                  runs, pc, DISCORD_WEBHOOK_URL, notified_dates, loaded,
                  all_available_dates_this_run, request_log, webhook_log,
                  save_outcome, summary_outcome, exit_code, ever_available, last_usable, reopen,
                  prev_available, well_formed, started_empty, clean >>

\* lines 100-149: one date is queried and classified; an exception that is no
\* RequestException reaches the handler of lines 235-237, which exits with 1
Check_Query(r) ==
  /\ pc[r] = "check"
  /\ InRange(current_date[r], end_date)
  /\ ~Skipped(strftime(current_date[r]), SKIP_DATES)
  /\ \E resp \in Responses, delivery \in DeliveryOutcomes :
       LET date_str  == strftime(current_date[r])
           branch    == Branch(resp)
           available == dict_get(resp.available, JInt(0)).v
           capacity  == dict_get(resp.capacity, JInt(0)).v
           was_in    == date_str \in notified_dates[r]
           \* the numbers of a response of the expected shape
           said      == IF Usable(resp)
                          THEN << resp.available.v, resp.capacity.v >>
                          ELSE << 0, 0 >>
       IN
       /\ request_log' = [request_log EXCEPT ![r] =
            Append(@, [date |-> date_str, answer |-> Answer(resp), branch |-> branch,
                       available |-> said[1], capacity |-> said[2]])]
       /\ IF Escapes(branch)
            THEN /\ pc' = [pc EXCEPT ![r] = "exited"]
                 /\ exit_code' = [exit_code EXCEPT ![r] = 1]
                 /\ clean' = FALSE
                 /\ UNCHANGED << current_date, notified_dates,
                                 all_available_dates_this_run, webhook_log >>
          ELSE IF /\ branch = "available" /\ IsNew(date_str, notified_dates[r])
                  /\ send_raises(delivery)
            \* an exception out of line 129 would leave the record appended
            \* and the date unmarked
            THEN /\ pc' = [pc EXCEPT ![r] = "exited"]
                 /\ exit_code' = [exit_code EXCEPT ![r] = 1]
                 /\ clean' = FALSE
                 /\ all_available_dates_this_run' = [all_available_dates_this_run EXCEPT ![r] =
                      ListAfter(branch, date_str, available, capacity, @)]
                 /\ webhook_log' = [webhook_log EXCEPT ![r] =
                      WebhookAfter(branch, date_str, available, capacity,
                                   notified_dates[r], delivery, @)]
                 /\ UNCHANGED << current_date, notified_dates >>
            ELSE /\ notified_dates' = [notified_dates EXCEPT ![r] =
                      NotifiedAfter(branch, date_str, @, delivery)]
                 /\ all_available_dates_this_run' = [all_available_dates_this_run EXCEPT ![r] =
                      ListAfter(branch, date_str, available, capacity, @)]
                 /\ webhook_log' = [webhook_log EXCEPT ![r] =
                      WebhookAfter(branch, date_str, available, capacity,
                                   notified_dates[r], delivery, @)]
                 /\ current_date' = [current_date EXCEPT ![r] = @ + 1]
                 /\ UNCHANGED << pc, exit_code, clean >>
       /\ ever_available' =
            IF branch = "available" THEN ever_available \cup {date_str} ELSE ever_available
       /\ last_usable' =
            IF branch \in {"available", "full"}
              THEN [last_usable EXCEPT ![date_str] = branch]
              ELSE last_usable
       /\ well_formed' = (well_formed /\ Answer(resp) # "deviant")
       /\ reopen' =
            IF branch = "full"
              THEN [reopen EXCEPT ![date_str] = IF was_in THEN "retracted" ELSE "none"]
            ELSE IF branch = "available" /\ reopen[date_str] = "retracted"
              THEN [reopen EXCEPT ![date_str] = "renotified"]
            ELSE reopen
  /\ UNCHANGED << start_date, end_date, SKIP_DATES, notified_file, last_saver, summary_file,
                  runs, DISCORD_WEBHOOK_URL, loaded, save_outcome, summary_outcome, prev_available,
                  started_empty >>

\* lines 151-156: the loop is over and the list is returned to __main__
Check_Return(r) ==
  /\ pc[r] = "check"
  /\ ~InRange(current_date[r], end_date)
  /\ pc' = [pc EXCEPT ![r] = "save"]
  /\ UNCHANGED << start_date, end_date, SKIP_DATES, notified_file, last_saver, summary_file,
                  runs, DISCORD_WEBHOOK_URL, notified_dates, loaded, current_date,
                  all_available_dates_this_run, request_log, webhook_log,
                  save_outcome, summary_outcome, exit_code, ever_available, last_usable, reopen,
                  prev_available, well_formed, started_empty, clean >>

\* variant: the exception of a failed save reaches the caller
save_raises_OnFailure(outcome) == outcome # "ok"

\* lines 57-58: save_notified_dates catches every Exception and prints it
save_raises(outcome) == FALSE

\* line 217: save_notified_dates(notified_dates); an exception out of it would
\* reach the handler of lines 235-237
Main_Save(r) ==
  /\ pc[r] = "save"
  /\ \E outcome \in SaveOutcomes, order \in Perms(notified_dates[r]) :
       /\ notified_file' = save_notified_dates(order, outcome, notified_file)
       /\ save_outcome' = [save_outcome EXCEPT ![r] = outcome]
       /\ last_saver' = IF outcome = "open_failed" THEN last_saver ELSE r
       /\ clean' = (clean /\ outcome = "ok")
       /\ IF save_raises(outcome)
            THEN /\ pc' = [pc EXCEPT ![r] = "exited"]
                 /\ exit_code' = [exit_code EXCEPT ![r] = 1]
            ELSE /\ pc' = [pc EXCEPT ![r] = "summary"]
                 /\ UNCHANGED exit_code
  /\ UNCHANGED << start_date, end_date, SKIP_DATES, summary_file, runs,
                  DISCORD_WEBHOOK_URL, notified_dates, loaded, current_date,
                  all_available_dates_this_run, request_log, webhook_log,
                  summary_outcome, ever_available, last_usable, reopen,
                  prev_available, well_formed, started_empty >>

\* variant: the total counts the dates available now
RunSummary_CountsAvailable(start, end, skip, available, notified) ==
  [kind |-> "ok", start |-> start, end |-> end, skip_dates |-> skip,
   available_dates_now |-> available, total_notified_dates |-> Len(available)]

\* lines 221-230: the object dumped into available_dates.json (checked_at, a
\* time stamp, is left out).  The "skip_dates" array is kept as the set of its
\* members.
RunSummary(start, end, skip, available, notified) ==
  [kind |-> "ok", start |-> start, end |-> end, skip_dates |-> skip,
   available_dates_now |-> available,
   total_notified_dates |-> Cardinality(notified)]

\* lines 220-233: the Run Summary is written; an OSError of open() reaches the
\* handler of lines 235-237
Main_Summary(r) ==
  /\ pc[r] = "summary"
  /\ \E outcome \in {"ok", "open_failed"} :
       /\ summary_outcome' = [summary_outcome EXCEPT ![r] = outcome]
       /\ IF outcome = "ok"
            THEN /\ summary_file' =
                      RunSummary(start_date, end_date, SKIP_DATES,
                                 all_available_dates_this_run[r], notified_dates[r])
                 /\ exit_code' = [exit_code EXCEPT ![r] = 0]
            ELSE /\ UNCHANGED summary_file
                 /\ exit_code' = [exit_code EXCEPT ![r] = 1]
  /\ pc' = [pc EXCEPT ![r] = "exited"]
  /\ UNCHANGED << start_date, end_date, SKIP_DATES, notified_file, last_saver,
                  runs, DISCORD_WEBHOOK_URL, notified_dates, loaded,
                  current_date, all_available_dates_this_run, request_log,
                  webhook_log, save_outcome, ever_available, last_usable,
                  reopen, prev_available, well_formed, started_empty, clean >>

\* the external trigger starts the script again once the last run has exited
NextRun(r) ==
  /\ pc[r] = "exited"
  /\ runs < MaxRuns
  /\ runs' = runs + 1
  /\ prev_available' =
       IF save_outcome[r] = "ok"
         THEN { all_available_dates_this_run[r][i].date :
                  i \in DOMAIN all_available_dates_this_run[r] }
         ELSE {}
  /\ pc' = [pc EXCEPT ![r] = "idle"]
  /\ DISCORD_WEBHOOK_URL' = [DISCORD_WEBHOOK_URL EXCEPT ![r] = <<>>]
  /\ notified_dates' = [notified_dates EXCEPT ![r] = {}]
  /\ loaded' = [loaded EXCEPT ![r] = {}]
  /\ current_date' = [current_date EXCEPT ![r] = 0]
  /\ all_available_dates_this_run' = [all_available_dates_this_run EXCEPT ![r] = <<>>]
  /\ request_log' = [request_log EXCEPT ![r] = <<>>]
  /\ webhook_log' = [webhook_log EXCEPT ![r] = <<>>]
  /\ save_outcome' = [save_outcome EXCEPT ![r] = "none"]
  /\ summary_outcome' = [summary_outcome EXCEPT ![r] = "none"]
  /\ exit_code' = [exit_code EXCEPT ![r] = -1]
  /\ UNCHANGED << start_date, end_date, SKIP_DATES, notified_file, last_saver,
                  summary_file, ever_available, last_usable, reopen,
                  well_formed, started_empty, clean >>

Next ==
  \E r \in Procs :
    \/ Main_Config(r)
    \/ Main_Load(r)
    \/ Check_Skip(r)
    \/ Check_Query(r)
    \/ Check_Return(r)
    \/ Main_Save(r)
    \/ Main_Summary(r)
    \/ NextRun(r)

Spec == Init /\ [][Next]_vars

\* ---------------------------------------------------- overlapping runs
\* Where invocations overlap, the two system calls of a save are steps of
\* their own: another process can load or save between them.  (In Spec nothing
\* comes between them, and Main_Save is the two together.)

\* line 54: open(filename, 'w') truncates the file, or raises and leaves it
Save_Open(r) ==
  /\ pc[r] = "save"
  /\ \E outcome \in {"ok", "open_failed"} :
       IF outcome = "ok"
         THEN /\ notified_file' = EmptyFile
              /\ pc' = [pc EXCEPT ![r] = "saving"]
              /\ UNCHANGED << save_outcome, clean >>
         ELSE /\ save_outcome' = [save_outcome EXCEPT ![r] = outcome]
              /\ clean' = FALSE
              /\ pc' = [pc EXCEPT ![r] = "summary"]
              /\ UNCHANGED notified_file
  /\ UNCHANGED << start_date, end_date, SKIP_DATES, last_saver, summary_file,
                  runs, DISCORD_WEBHOOK_URL, notified_dates, loaded,
                  current_date, all_available_dates_this_run, request_log,
                  webhook_log, summary_outcome, exit_code, ever_available,
                  last_usable, reopen, prev_available, well_formed,
                  started_empty >>

\* line 55: json.dump and the close of the file write the document, or fail
Save_Write(r) ==
  /\ pc[r] = "saving"
  /\ \E outcome \in {"ok", "write_failed"}, order \in Perms(notified_dates[r]),
        longer \in BOOLEAN :
       /\ notified_file' = write_at_start(order, outcome, longer, notified_file)
       /\ save_outcome' = [save_outcome EXCEPT ![r] = outcome]
       /\ clean' = (clean /\ outcome = "ok")
  /\ last_saver' = r
  /\ pc' = [pc EXCEPT ![r] = "summary"]
  /\ UNCHANGED << start_date, end_date, SKIP_DATES, summary_file, runs,
                  DISCORD_WEBHOOK_URL, notified_dates, loaded, current_date,
                  all_available_dates_this_run, request_log, webhook_log,
                  summary_outcome, exit_code, ever_available, last_usable,
                  reopen, prev_available, well_formed, started_empty >>

\* two invocations started by overlapping triggers, over the same two files
\* and a range of one day, each running once
InitOverlap == InitEnv /\ start_date = end_date /\ InitProc({1, 2}) /\ runs = 2

NextOverlap ==
  \E r \in Procs :
    \/ Main_Config(r)
    \/ Main_Load(r)
    \/ Check_Skip(r)
    \/ Check_Query(r)
    \/ Check_Return(r)
    \/ Save_Open(r)
    \/ Save_Write(r)
    \/ Main_Summary(r)

SpecOverlap == InitOverlap /\ [][NextOverlap]_vars


\* =================================================================== claims
\* what the logs of process r say
QueriedDates(r) == { request_log[r][i].date : i \in DOMAIN request_log[r] }
SentDates(r) == { webhook_log[r][i].date : i \in DOMAIN webhook_log[r] }
ListedDates(r) ==
  { all_available_dates_this_run[r][i].date : i \in DOMAIN all_available_dates_this_run[r] }
Observed(r, d, answer) ==
  \E i \in DOMAIN request_log[r] :
    request_log[r][i].date = d /\ request_log[r][i].answer = answer
SendCount(r, d) == Cardinality({ i \in DOMAIN webhook_log[r] : webhook_log[r][i].date = d })

\* check_availability returned to __main__ in this invocation of r
CheckReturned(r) ==
  pc[r] \in {"save", "saving", "summary"} \/ (pc[r] = "exited" /\ save_outcome[r] # "none")
\* the invocation of r ended in the handler of lines 235-237 during the check
Aborted(r) ==
  pc[r] = "exited" /\ save_outcome[r] = "none" /\ ~ConfigInvalid(DISCORD_WEBHOOK_URL[r])

\* this step is the iteration of r for date d, and the source gave this answer
Answers(r, d, answer) ==
  /\ Len(request_log'[r]) = Len(request_log[r]) + 1
  /\ request_log'[r][Len(request_log'[r])].date = d
  /\ request_log'[r][Len(request_log'[r])].answer = answer
\* this step posts exactly one message, about d / posts nothing
SendsOne(r, d) ==
  /\ Len(webhook_log'[r]) = Len(webhook_log[r]) + 1
  /\ webhook_log'[r][Len(webhook_log'[r])].date = d
  /\ SubSeq(webhook_log'[r], 1, Len(webhook_log[r])) = webhook_log[r]
SendsNone(r) == webhook_log'[r] = webhook_log[r]

\* C1 (idempotence across runs): when the previous run returned from the check
\* and saved the Notified-Set, a date it listed as available that this run
\* observes as available again gets no notification, is listed, and is in the
\* Notified-Set.
C1_Idempotent ==
  \A r \in Procs : \A d \in prev_available :
    Observed(r, d, "available") =>
      /\ d \notin SentDates(r)
      /\ d \in ListedDates(r)
      /\ d \in notified_dates[r]

C1_Witness ==
  \E r \in Procs : \E d \in prev_available :
    /\ Observed(r, d, "available")
    /\ pc[r] = "exited" /\ exit_code[r] = 0
    /\ d \notin SentDates(r) /\ d \in ListedDates(r)

C3_Retraction ==
  \A r \in Procs : \A d \in loaded[r] :
    (CheckReturned(r) /\ Observed(r, d, "full")) =>
      /\ d \notin notified_dates[r]
      /\ d \notin SentDates(r)
      /\ d \notin ListedDates(r)

C3_Witness ==
  \E r \in Procs : \E d \in loaded[r] :
    /\ CheckReturned(r) /\ Observed(r, d, "full")
    /\ d \notin notified_dates[r]

\* C4 (skip set): a date of the skip set is never queried, never notified,
\* never listed by the check and never in the Run Summary's available list.
C4_SkipSet ==
  \A r \in Procs : \A d \in SKIP_DATES :
    /\ d \notin QueriedDates(r)
    /\ d \notin SentDates(r)
    /\ d \notin ListedDates(r)
    /\ \A i \in DOMAIN summary_file.available_dates_now :
         summary_file.available_dates_now[i].date # d

\* a run over a range that holds a skipped date and a queried one has ended
C4_Witness ==
  \E r \in Procs : \E d \in SKIP_DATES :
    /\ DateLE(start_date, d) /\ DateLE(d, end_date)
    /\ pc[r] = "exited" /\ exit_code[r] = 0
    /\ summary_file.kind = "ok"
    /\ ListedDates(r) # {}

\* C5 (newly available date): an iteration that gets usable data with
\* available > 0 for a date not in the Notified-Set posts exactly one message,
\* about that date, and leaves the date in the Notified-Set, whether or not the
\* message was delivered.
C5_NewlyAvailable ==
  [][ \A r \in Procs : \A d \in Dates :
        (Answers(r, d, "available") /\ d \notin notified_dates[r]) =>
          (SendsOne(r, d) /\ d \in notified_dates'[r]) ]_vars

\* a message that was not delivered, for a date that is now marked notified
C5_Witness ==
  \E r \in Procs : \E i \in DOMAIN webhook_log[r] :
    /\ ~webhook_log[r][i].delivered
    /\ webhook_log[r][i].date \in notified_dates[r]
    /\ webhook_log[r][i].date \notin loaded[r]
    /\ SendCount(r, webhook_log[r][i].date) = 1


\* the dates the check has to query, in the order it has to query them
ExpectedQueries ==
  Ascending({ d \in Dates : DateLE(start_date, d) /\ DateLE(d, end_date) } \ SKIP_DATES)

\* C6 (per-date query failure is non-fatal): a date whose query failed at
\* transport or parse level is not listed, not notified and keeps its
\* membership in the Notified-Set; the failure does not end the run, and once
\* the check has returned every later date of the range outside the skip set
\* has been queried after it.
C6_QueryFailureNonFatal ==
  \A r \in Procs : \A i \in DOMAIN request_log[r] :
    LET d == request_log[r][i].date IN
    (request_log[r][i].answer = "failed") =>
      /\ d \notin ListedDates(r)
      /\ d \notin SentDates(r)
      /\ (d \in notified_dates[r]) <=> (d \in loaded[r])
      /\ (pc[r] = "check") => (current_date[r] > strptime(d))
      /\ Aborted(r) => (i < Len(request_log[r]))
      /\ CheckReturned(r) =>
           \A e \in Dates \ SKIP_DATES :
             (DateLE(e, end_date) /\ ~DateLE(e, d)) =>
               \E j \in DOMAIN request_log[r] : j > i /\ request_log[r][j].date = e

\* a failed query, and after it a date that was found available and notified
C6_Witness ==
  \E r \in Procs : \E i, j \in DOMAIN request_log[r] :
    /\ request_log[r][i].answer = "failed"
    /\ j > i
    /\ request_log[r][j].answer = "available"
    /\ request_log[r][j].date \in SentDates(r)
    /\ CheckReturned(r)

\* C7 as stated (no usable data is 'unknown'): a date whose query succeeded at
\* transport level with a response that deviates from the expected shape is
\* not listed, not notified, keeps its membership in the Notified-Set, and the
\* scan goes on to the next date.
C7_DeviantIsUnknown ==
  \A r \in Procs : \A i \in DOMAIN request_log[r] :
    LET d == request_log[r][i].date IN
    (request_log[r][i].answer = "deviant") =>
      /\ d \notin ListedDates(r)
      /\ d \notin SentDates(r)
      /\ (d \in notified_dates[r]) <=> (d \in loaded[r])
      /\ Aborted(r) => (i < Len(request_log[r]))

\* the Notified-Set as it stands: in memory while a run is past its load, in
\* the file when no run is under way
NotifiedSetNow ==
  UNION { notified_dates[r] : r \in { q \in Procs : pc[q] \in {"check", "save", "summary"} } }
  \cup (IF \A r \in Procs : pc[r] \in {"idle", "exited", "off"}
          THEN load_notified_dates(notified_file) ELSE {})

C9_RoundTrip ==
  \A r \in Procs :
    (pc[r] \in {"summary", "exited"} /\ save_outcome[r] = "ok") =>
      /\ notified_file.kind = "ok"
      /\ load_notified_dates(notified_file) = notified_dates[r]
      /\ Len(notified_file.dates) = Cardinality(notified_dates[r])

\* a save over a file that held a date the saved set does not hold
C9_Witness ==
  \E r \in Procs :
    /\ pc[r] = "summary" /\ save_outcome[r] = "ok"
    /\ notified_dates[r] # {}
    /\ loaded[r] \ notified_dates[r] # {}
    /\ load_notified_dates(notified_file) = notified_dates[r]

\* C10 (range iteration): the dates queried so far are an initial part of the
\* dates of [start_date, end_date] outside the skip set in ascending order,
\* each once; when the check has returned they are all of them; with
\* start_date > end_date the check returns without a query, a list entry, a
\* notification or a change of the Notified-Set, and the run is not aborted.
C10_RangeIteration ==
  LET expected == ExpectedQueries
      n == Len(expected)
  IN \A r \in Procs :
       /\ Len(request_log[r]) <= n
       /\ \A i \in DOMAIN request_log[r] : request_log[r][i].date = expected[i]
       /\ CheckReturned(r) => (Len(request_log[r]) = n)
       /\ (start_date = end_date /\ CheckReturned(r))
            => (Len(request_log[r]) = (IF start_date \in SKIP_DATES THEN 0 ELSE 1))
       /\ (~DateLE(start_date, end_date) /\ pc[r] \notin {"idle", "load", "off"})
            => /\ request_log[r] = <<>>
               /\ ~Aborted(r)
               /\ all_available_dates_this_run[r] = <<>>
               /\ webhook_log[r] = <<>>
               /\ notified_dates[r] = loaded[r]

\* a check over two dates has returned after querying both, the earlier first
C10_Witness ==
  \E r \in Procs :
    /\ CheckReturned(r)
    /\ Len(request_log[r]) = 2
    /\ request_log[r][1].date = start_date
    /\ request_log[r][2].date = end_date
    /\ strptime(end_date) = strptime(start_date) + 1

\* C11 as stated (returned list exactness): the list a check returns holds, in
\* ascending date order, exactly one record for each queried date whose answer
\* had the expected shape with available > 0, with the numbers the source
\* reported, and no record for any other date; every record has available > 0.
ReportedAvailable(r) ==
  LET hits == SelectSeq(request_log[r], LAMBDA e : e.answer = "available")
  IN [ i \in 1 .. Len(hits) |->
         [date |-> hits[i].date, available |-> hits[i].available,
          capacity |-> hits[i].capacity] ]

C11_ReturnedList ==
  \A r \in Procs :
    CheckReturned(r) =>
      LET list == all_available_dates_this_run[r] IN
      /\ list = ReportedAvailable(r)
      /\ \A i \in DOMAIN list : list[i].available > 0
      /\ \A i, j \in DOMAIN list :
           i < j => (list[i].date # list[j].date /\ DateLE(list[i].date, list[j].date))

\* C12 (configuration error is fatal and early): an invocation whose channel
\* target is the placeholder, or does not start with the webhook prefix, has
\* exited with a non-zero code without loading the Notified-Set, without a
\* query or a notification and without a save, and the step that rejects the
\* target leaves the Notified-Set file and the Run Summary file as they were.
BadTarget(u) == u = Placeholder \/ u = <<>> \/ u[1] # WebhookPrefix

C12_ConfigErrorFatal ==
  /\ [](\A r \in Procs :
          (pc[r] \notin {"idle", "off"} /\ BadTarget(DISCORD_WEBHOOK_URL[r])) =>
            /\ pc[r] = "exited"
            /\ exit_code[r] = 1
            /\ current_date[r] = 0 /\ loaded[r] = {} /\ notified_dates[r] = {}
            /\ request_log[r] = <<>>
            /\ webhook_log[r] = <<>>
            /\ save_outcome[r] = "none")
  /\ [][ \A r \in Procs :
           (pc[r] = "idle" /\ pc'[r] # "idle" /\ BadTarget(DISCORD_WEBHOOK_URL'[r])) =>
             (notified_file' = notified_file /\ summary_file' = summary_file) ]_vars

\* a later invocation with a foreign URL, rejected while both files exist
C12_Witness ==
  \E r \in Procs :
    /\ pc[r] = "exited" /\ exit_code[r] = 1
    /\ DISCORD_WEBHOOK_URL[r] = <<"https://example.com/", "hook">>
    /\ request_log[r] = <<>> /\ webhook_log[r] = <<>> /\ save_outcome[r] = "none"
    /\ runs > 1
    /\ notified_file.kind = "ok" /\ summary_file.kind = "ok"

\* C13 (recoverable failures do not change the outcome): an invocation with a
\* valid channel target in which no exception left the check and the write of
\* the Run Summary did not fail has written its Run Summary and exited with
\* 0, whatever queries failed, deliveries failed, the load found or the save
\* did; an exit code other than 0 is 1 and comes with an invalid target, an
\* exception out of the check, or a failed write of the Run Summary.
CheckRaised(r) ==
  \E i \in DOMAIN request_log[r] :
    request_log[r][i].branch \in {"attribute_error", "type_error"}

C13_RecoverableFailures ==
  \A r \in Procs :
    pc[r] = "exited" =>
      /\ exit_code[r] \in {0, 1}
      /\ ( /\ ~BadTarget(DISCORD_WEBHOOK_URL[r])
           /\ ~CheckRaised(r)
           /\ summary_outcome[r] # "open_failed" )
         => /\ exit_code[r] = 0
            /\ summary_outcome[r] = "ok"
            /\ save_outcome[r] # "none"
            /\ summary_file.kind = "ok"
            /\ summary_file.available_dates_now = all_available_dates_this_run[r]

\* a run that could not read the Notified-Set, had a query fail, had a
\* delivery fail and could not save, and still exited with 0
C13_Witness ==
  \E r \in Procs :
    /\ pc[r] = "exited" /\ exit_code[r] = 0
    /\ notified_file.kind = "corrupt" /\ save_outcome[r] = "open_failed"
    /\ \E i \in DOMAIN request_log[r] : request_log[r][i].answer = "failed"
    /\ \E i \in DOMAIN webhook_log[r] : ~webhook_log[r][i].delivered
    /\ summary_file.kind = "ok"

\* C14 (Run Summary consistency): an invocation goes through load, check, save
\* and summary in this order; the Run Summary it writes replaces the previous
\* one as a whole and holds the configured range and skip set, the list the
\* check returned in this run, and the number of distinct dates in the
\* Notified-Set after this run's additions and retractions.
RunOrder ==
  { <<"idle", "load">>, <<"load", "check">>, <<"check", "save">>,
    <<"save", "summary">>, <<"summary", "exited">>,
    <<"idle", "exited">>, <<"check", "exited">>, <<"exited", "idle">> }

C14_RunSummary ==
  /\ [][ \A r \in Procs : pc'[r] # pc[r] => << pc[r], pc'[r] >> \in RunOrder ]_vars
  /\ [](\A r \in Procs :
          (pc[r] = "exited" /\ summary_outcome[r] = "ok") =>
            /\ save_outcome[r] # "none"
            /\ summary_file =
                 [kind |-> "ok", start |-> start_date, end |-> end_date,
                  skip_dates |-> SKIP_DATES,
                  available_dates_now |-> all_available_dates_this_run[r],
                  total_notified_dates |-> Cardinality(notified_dates[r])])

\* a later run whose summary replaced an earlier one and counts more notified
\* dates than it lists as available
C14_Witness ==
  \E r \in Procs :
    /\ pc[r] = "exited" /\ summary_outcome[r] = "ok" /\ runs > 1
    /\ SKIP_DATES # {}
    /\ summary_file.available_dates_now # <<>>
    /\ summary_file.total_notified_dates > Len(summary_file.available_dates_now)
    /\ notified_dates[r] # loaded[r]

\* C15 (load degrades to empty): when the Notified-Set file is missing or is
\* not readable as JSON, the load gives the empty set and the run goes on into
\* the check; every date this run then observes with available > 0 is
\* notified once as new and marked.
C15_LoadDegrades ==
  \A r \in Procs :
    (pc[r] \in {"check", "save"} /\ notified_file.kind # "ok") =>
      /\ loaded[r] = {}
      /\ \A d \in Dates :
           Observed(r, d, "available") =>
             (SendCount(r, d) = 1 /\ d \in notified_dates[r] /\ d \in ListedDates(r))

\* a run over a corrupt file that found two dates available and posted both
C15_Witness ==
  \E r \in Procs :
    /\ pc[r] = "save" /\ notified_file.kind = "corrupt"
    /\ Cardinality({ d \in Dates : Observed(r, d, "available") }) = 2
    /\ Cardinality(SentDates(r)) = 2

\* C16 (a notification failure never aborts the scan): after a delivery that
\* failed, for whatever reason, the invocation has not ended in the iteration
\* of that date; the loop is past the date, and once the check has returned
\* every later date of the range outside the skip set has been queried, and
\* those among them answered with available > 0 that were not in the loaded
\* Notified-Set have been notified.
C16_SendFailureNonFatal ==
  \A r \in Procs : \A i \in DOMAIN webhook_log[r] :
    ~webhook_log[r][i].delivered =>
      LET d == webhook_log[r][i].date
          expected == ExpectedQueries
          later == { e \in Range(expected) : strptime(e) > strptime(d) }
      IN
      /\ pc[r] = "exited" =>
           \/ save_outcome[r] # "none"
           \/ request_log[r][Len(request_log[r])].date # d
      /\ pc[r] = "check" => current_date[r] > strptime(d)
      /\ CheckReturned(r) =>
           /\ later \subseteq QueriedDates(r)
           /\ \A e \in later :
                (Observed(r, e, "available") /\ e \notin loaded[r]) => e \in SentDates(r)

\* a run whose first message was lost and which went on to query the next date
\* and to post a second message for it
C16_Witness ==
  \E r \in Procs :
    /\ CheckReturned(r)
    /\ Len(webhook_log[r]) = 2
    /\ ~webhook_log[r][1].delivered
    /\ webhook_log[r][2].date # webhook_log[r][1].date
    /\ Observed(r, webhook_log[r][2].date, "available")

\* C17 as stated (frame on the Notified-Set): a check changes the membership
\* of a date only if it queried the date and the answer was usable data; every
\* other date (in the skip set, outside the range, query failed, no usable
\* data) is in the set after the check exactly if it was in the loaded set,
\* and is in the file a successful save wrote exactly if it was in the loaded
\* set.
GotUsable(r, d) == Observed(r, d, "available") \/ Observed(r, d, "full")

C17_Frame ==
  \A r \in Procs : \A d \in Dates :
    (pc[r] \in {"check", "save", "summary", "exited"} /\ ~GotUsable(r, d)) =>
      /\ d \in notified_dates[r] <=> d \in loaded[r]
      /\ (pc[r] \in {"summary", "exited"} /\ save_outcome[r] = "ok") =>
           (d \in load_notified_dates(notified_file) <=> d \in loaded[r])

\* C18 (an abort leaves the persisted state untouched): the iteration in which
\* an exception leaves the check ends the invocation with a non-zero code;
\* from its load to that exit no step writes the Notified-Set file or the Run
\* Summary file, no save and no summary follow, and the file still gives the
\* set the run loaded, also for the dates the run had already notified.
Raises(r) ==
  /\ Len(request_log'[r]) = Len(request_log[r]) + 1
  /\ request_log'[r][Len(request_log'[r])].branch \in {"attribute_error", "type_error"}

C18_AbortLeavesState ==
  /\ [][ \A r \in Procs :
           /\ Raises(r) => (pc'[r] = "exited" /\ exit_code'[r] = 1)
           /\ pc[r] \in {"load", "check"} =>
                (notified_file' = notified_file /\ summary_file' = summary_file) ]_vars
  /\ [](\A r \in Procs :
          CheckRaised(r) =>
            /\ pc[r] = "exited" /\ exit_code[r] = 1
            /\ save_outcome[r] = "none" /\ summary_outcome[r] = "none"
            /\ load_notified_dates(notified_file) = loaded[r])

\* an aborted run that had posted a message for a new date before: the file
\* does not hold the date
C18_Witness ==
  \E r \in Procs :
    /\ Aborted(r) /\ CheckRaised(r)
    /\ \E i \in DOMAIN webhook_log[r] :
         /\ webhook_log[r][i].delivered
         /\ webhook_log[r][i].date \in notified_dates[r]
         /\ webhook_log[r][i].date \notin load_notified_dates(notified_file)

\* C19 (overlapping runs, last writer wins): when two invocations overlap, the
\* Notified-Set file, once a save of invocation r was the last write to it and
\* succeeded, holds exactly the set r had in memory: the set r loaded, plus
\* the dates r found available, minus the dates r found full; nothing of what
\* the other invocation added or retracted is merged in.  Neither invocation
\* sees the other's marks: a date missing in both loaded sets and answered
\* with available > 0 to both is notified by both.
Added(r) ==
  { request_log[r][i].date :
      i \in { j \in DOMAIN request_log[r] : request_log[r][j].branch = "available" } }
Retracted(r) ==
  { request_log[r][i].date :
      i \in { j \in DOMAIN request_log[r] : request_log[r][j].branch = "full" } }

C19_LastWriterWins ==
  /\ \A r \in Procs :
       ((\A q \in Procs : pc[q] = "exited" /\ save_outcome[q] = "ok") /\ last_saver = r) =>
         /\ load_notified_dates(notified_file) = notified_dates[r]
         /\ notified_dates[r] = (loaded[r] \cup Added(r)) \ Retracted(r)
  /\ \A d \in Dates :
       (\A r \in Procs : d \notin loaded[r] /\ Observed(r, d, "available")) =>
         (\A r \in Procs : SendCount(r, d) = 1)

====
